---- MODULE Spec2Model ----
(***************************************************************************)
(* Model of the e-commerce backend of src/index.js: the three HTTP        *)
(* handlers (create-payment-intent, process-order, analytics) and the     *)
(* product-written trigger that maintains the search index.               *)
(*                                                                         *)
(* Four specifications share the variables:                               *)
(*   SpecPay       create-payment-intent (amount conversion)              *)
(*   SpecOrders    concurrent process-order requests                      *)
(*   SpecAnalytics the analytics handler over a given orders collection   *)
(*   SpecIndex     product writes and the updateSearchIndex trigger       *)
(***************************************************************************)
EXTENDS Integers, Sequences, FiniteSets, TLC

\* JavaScript's undefined for a string-valued input (absent header or field).
Undefined == "undefined"
\* A field of a document: absent, or present with value v.
Undef == [def |-> FALSE]
Def(v) == [def |-> TRUE, v |-> v]
\* A document slot of a collection: no document, or a document with data d.
NoDoc == [exists |-> FALSE]
Doc(d) == [exists |-> TRUE, data |-> d]

RECURSIVE Pow2(_)
Pow2(n) == IF n = 0 THEN 1 ELSE 2 * Pow2(n - 1)

(***************************************************************************)
(* IEEE-754 binary64 arithmetic, as used by `amount * 100` and Math.round. *)
(* Significands exceed the checker's integers, so naturals are kept as     *)
(* little-endian sequences of limbs in base LimbBase.                      *)
(***************************************************************************)
LimbBits == 10
LimbBase == Pow2(LimbBits)
\* Width of a binary64 significand.
Precision == 53
\* Exponent used to scale a decimal literal before it is divided down.
ParseScale == 70

RECURSIVE BigFromInt(_)
BigFromInt(n) ==
    IF n = 0 THEN <<>> ELSE <<n % LimbBase>> \o BigFromInt(n \div LimbBase)

RECURSIVE BigToInt(_)
BigToInt(a) ==
    IF a = <<>> THEN 0 ELSE Head(a) + LimbBase * BigToInt(Tail(a))

RECURSIVE BigMulCarry(_, _, _)
BigMulCarry(a, k, c) ==
    IF a = <<>> THEN BigFromInt(c)
    ELSE LET t == Head(a) * k + c
         IN  <<t % LimbBase>> \o BigMulCarry(Tail(a), k, t \div LimbBase)

BigMulSmall(a, k) == BigMulCarry(a, k, 0)

RECURSIVE BigAddSmall(_, _)
BigAddSmall(a, c) ==
    IF c = 0 THEN a
    ELSE IF a = <<>> THEN BigFromInt(c)
    ELSE LET t == Head(a) + c
         IN  <<t % LimbBase>> \o BigAddSmall(Tail(a), t \div LimbBase)

\* Quotient and remainder of a by a small divisor k (schoolbook division,
\* most significant limb first).
RECURSIVE BigDivSmall(_, _)
BigDivSmall(a, k) ==
    IF a = <<>> THEN [q |-> <<>>, r |-> 0]
    ELSE LET hi == BigDivSmall(Tail(a), k)
             t  == hi.r * LimbBase + Head(a)
         IN  [q |-> <<t \div k>> \o hi.q, r |-> t % k]

RECURSIVE BigShl(_, _)
BigShl(a, n) ==
    IF n >= LimbBits THEN <<0>> \o BigShl(a, n - LimbBits)
    ELSE BigMulSmall(a, Pow2(n))

Bit(a, i) ==
    LET idx == (i \div LimbBits) + 1
    IN  IF idx > Len(a) THEN 0 ELSE (a[idx] \div Pow2(i % LimbBits)) % 2

BigBitLen(a) ==
    LET ones == {i \in 0..(Len(a) * LimbBits - 1) : Bit(a, i) = 1}
    IN  IF ones = {} THEN 0 ELSE 1 + CHOOSE i \in ones : \A j \in ones : j <= i

RECURSIVE BigShr(_, _)
BigShr(a, n) ==
    IF a = <<>> THEN <<>>
    ELSE IF n >= LimbBits THEN BigShr(Tail(a), n - LimbBits)
    ELSE BigDivSmall(a, Pow2(n)).q

\* Round the natural a (followed by further non-zero digits iff sticky) to
\* Precision significant bits, ties to even.  The value is m * 2^e.
RoundToDouble(a, sticky, e) ==
    LET len == BigBitLen(a)
        k   == len - Precision
    IN  IF k <= 0 THEN [m |-> a, e |-> e]
        ELSE LET q     == BigShr(a, k)
                 half  == Bit(a, k - 1) = 1
                 below == sticky \/ \E i \in 0..(k - 2) : Bit(a, i) = 1
                 up    == half /\ (below \/ Bit(q, 0) = 1)
             IN  [m |-> IF up THEN BigAddSmall(q, 1) ELSE q, e |-> e + k]

\* The double nearest to the decimal literal milli/1000 (JSON number parsing).
ParseMilli(milli) ==
    LET d == BigDivSmall(BigShl(BigFromInt(milli), ParseScale), 1000)
    IN  RoundToDouble(d.q, d.r # 0, 0 - ParseScale)

\* x * 100 in binary64: the exact product rounded to nearest, ties to even.
DoubleTimes100(x) == RoundToDouble(BigMulSmall(x.m, 100), FALSE, x.e)

\* Math.round: floor(x + 0.5) computed exactly, for x >= 0.
MathRound(x) ==
    IF x.e >= 0 THEN BigToInt(BigShl(x.m, x.e))
    ELSE BigToInt(BigShr(x.m, 0 - x.e)) + Bit(x.m, (0 - x.e) - 1)

\* Line 21: Math.round(amount * 100), amount given as a decimal with three
\* fractional digits.
ToCents(milli) == MathRound(DoubleTimes100(ParseMilli(milli)))


(***************************************************************************)
(* State.                                                                  *)
(***************************************************************************)
VARIABLES
    \* document store
    orders,          \* collection 'orders', in document order
    products,        \* collection 'products': productId -> NoDoc or Doc(..)
    carts,           \* collection 'carts': the userIds that have a cart document
    users,           \* collection 'users': uid -> NoDoc or Doc(..)
    search_index,    \* collection 'search_index': productId -> NoDoc or Doc(..)
    clock,           \* the store's server time
    \* payments provider
    intents,         \* payment intents created at the provider
    payLog,          \* create-payment-intent exchanges: request and response
    \* process-order invocations
    pc,              \* position of each invocation
    body,            \* req.body
    paymentIntent,   \* the retrieved payment intent
    orderRef,        \* id returned by add()
    response,        \* what res.status().json() sent
    batchCommitted,  \* history: invocations whose batch.commit() resolved
    \* the analytics invocation
    apc,             \* its position
    token,           \* bearer token of the Authorization header
    decodedToken,    \* result of verifyIdToken
    userDoc,         \* snapshot of users/{uid}
    ordersSnapshot,
    productsSnapshot,
    usersSnapshot,
    aresponse,
    \* product-written trigger
    writes,          \* history: the product writes so far, in commit order
    events,          \* the writes whose event the trigger has yet to handle
    handled          \* history: the writes whose event the trigger handled

vars == <<orders, products, carts, users, search_index, clock, intents, payLog,
          pc, body, paymentIntent, orderRef, response, batchCommitted,
          apc, token, decodedToken, userDoc, ordersSnapshot, productsSnapshot,
          usersSnapshot, aresponse, events, handled, writes>>

storeVars     == <<orders, products, carts, users, search_index, clock>>
payVars       == <<intents, payLog>>
orderVars     == <<pc, body, paymentIntent, orderRef, response, batchCommitted>>
analyticsVars == <<apc, token, decodedToken, userDoc, ordersSnapshot,
                   productsSnapshot, usersSnapshot, aresponse>>
indexVars     == <<events, handled, writes>>

\* Locals of an invocation before they are assigned.
NoResponse == [status |-> 0]
NoSnapshot == [read |-> FALSE]
NoToken    == [verified |-> FALSE]
NoIntent   == [status |-> "none"]

\* Parts of the initial state a specification does not exercise.
IdlePay == intents = <<>> /\ payLog = <<>>

IdleAnalytics ==
    /\ apc = "start" /\ token = Undefined /\ decodedToken = NoToken
    /\ userDoc = NoSnapshot /\ ordersSnapshot = NoSnapshot
    /\ productsSnapshot = NoSnapshot /\ usersSnapshot = NoSnapshot
    /\ aresponse = NoResponse

IdleIndex == writes = <<>> /\ events = {} /\ handled = {}

(***************************************************************************)
(* create-payment-intent (lines 16-30).                                    *)
(***************************************************************************)
\* Requests the model issues: amounts in thousandths of a currency unit.
AmountsMilli == {5, 290, 1005, 2675, 19985, 19995}
PayCurrencies == {Undefined, "eur"}
MaxPayRequests == 2

\* Line 18: currency = 'usd' when the body has none.
DefaultCurrency(c) == IF c = Undefined THEN "usd" ELSE c

\* Lines 20-24: the argument of stripe.paymentIntents.create.
IntentParams(req) ==
    [amount   |-> ToCents(req.amountMilli),
     currency |-> DefaultCurrency(req.currency),
     metadata |-> [orderId |-> req.orderId]]

CreatePaymentIntent ==
    /\ Len(payLog) < MaxPayRequests
    /\ \E milli \in AmountsMilli, cur \in PayCurrencies, providerOk \in BOOLEAN :
         LET req == [amountMilli |-> milli, currency |-> cur, orderId |-> "order-1"]
             id  == Len(intents) + 1
         IN  IF providerOk
             THEN /\ intents' = Append(intents, [id |-> id] @@ IntentParams(req))
                  /\ payLog' = Append(payLog,
                        [req |-> req, intent |-> id,
                         res |-> [status |-> 200, clientSecret |-> id]])
             ELSE /\ intents' = intents
                  /\ payLog' = Append(payLog,
                        [req |-> req, intent |-> 0,
                         res |-> [status |-> 500, error |-> "provider error"]])
    /\ UNCHANGED <<storeVars, orderVars, analyticsVars, indexVars>>


(***************************************************************************)
(* process-order (lines 33-73).                                            *)
(***************************************************************************)
MaxRequests == 2
Requests == 1..MaxRequests
\* Stock every existing product starts with.
InitStock == 2

UserIds == {"u1", "u2"}
ProductIds == {"p1", "p2", "p3"}

\* Strings whose characters matter are sequences of character codes.
StrShoe  == <<83, 104, 111, 101>>
StrWear  == <<87, 69, 65, 82>>
StrImage == <<105, 109, 103>>

StockedProduct(stock) ==
    Doc([name |-> Def(StrShoe), category |-> Def(StrWear),
         description |-> Def(<<>>), tags |-> Def(<<>>), price |-> Def(10),
         images |-> Def(<<StrImage>>), stock |-> stock])

\* p1 and p2 are on sale; there is no document products/p3.
InitProducts ==
    [p \in ProductIds |-> IF p = "p3" THEN NoDoc ELSE StockedProduct(InitStock)]

Item(p, q) == [productId |-> p, quantity |-> q]

\* Request bodies the model issues.
Bodies ==
    { [userId |-> "u1", items |-> <<Item("p1", 1), Item("p2", 2)>>, total |-> 40,
       shippingAddress |-> "addr-1", paymentIntentId |-> "pi_1"],
      [userId |-> "u2", items |-> <<Item("p1", 2)>>, total |-> 20,
       shippingAddress |-> "addr-2", paymentIntentId |-> "pi_2"],
      [userId |-> "u1", items |-> <<Item("p1", 1), Item("p3", 1)>>, total |-> 25,
       shippingAddress |-> "addr-1", paymentIntentId |-> "pi_1"] }

NoBody == [userId |-> "", items |-> <<>>, total |-> 0, shippingAddress |-> "",
           paymentIntentId |-> ""]

\* What stripe.paymentIntents.retrieve can return for an id.
IntentStatuses == {"succeeded", "requires_payment_method", "processing"}

\* Variant: only an intent still waiting for a payment method is refused.
PaymentCompletedLoose(pi) == pi.status # "requires_payment_method"

\* Line 39 (negated): the handler goes on only for a succeeded intent.
PaymentCompleted(pi) == pi.status = "succeeded"

\* Lines 44-53: the document passed to add(); id and timestamps come from
\* the store.
NewOrder(b, id, now) ==
    [id |-> id, userId |-> b.userId, items |-> b.items, total |-> b.total,
     shippingAddress |-> b.shippingAddress,
     paymentIntentId |-> b.paymentIntentId, status |-> "confirmed",
     createdAt |-> now, updatedAt |-> now]

\* Variant: an order is stored once per payment intent.
OrdersAddOnce(os, b, now) ==
    IF \E i \in 1..Len(os) : os[i].paymentIntentId = b.paymentIntentId
    THEN os
    ELSE Append(os, NewOrder(b, Len(os) + 1, now))

\* collection('orders').add(data): always a new document under a fresh id.
OrdersAdd(os, b, now) == Append(os, NewOrder(b, Len(os) + 1, now))

\* Lines 57-62: one update per item, FieldValue.increment(-item.quantity).
BatchUpdates(items) ==
    [i \in 1..Len(items) |->
        [ref |-> items[i].productId, delta |-> 0 - items[i].quantity]]

\* Variant: a stock that would fall below zero is held at zero.
IncrementFloor(v, delta) == IF v + delta < 0 THEN 0 ELSE v + delta

\* FieldValue.increment(delta) applied by the store to the current value.
Increment(v, delta) == v + delta

\* Variant: only the first write of the batch is applied.
ApplyUpdatesFirst(prods, ws) ==
    IF ws = <<>> THEN prods
    ELSE LET w == Head(ws)
             d == prods[w.ref].data
         IN  [prods EXCEPT ![w.ref] =
                 Doc([d EXCEPT !.stock = Increment(d.stock, w.delta)])]

RECURSIVE ApplyUpdates(_, _)
ApplyUpdates(prods, ws) ==
    IF ws = <<>> THEN prods
    ELSE LET w == Head(ws)
             d == prods[w.ref].data
         IN  ApplyUpdates(
                 [prods EXCEPT ![w.ref] =
                     Doc([d EXCEPT !.stock = Increment(d.stock, w.delta)])],
                 Tail(ws))

\* Variant: the writes are applied one by one up to the first that fails.
BatchCommitPartial(prods, ws) ==
    LET missing == {i \in 1..Len(ws) : ~prods[ws[i].ref].exists}
    IN  IF missing = {}
        THEN [ok |-> TRUE, products |-> ApplyUpdates(prods, ws)]
        ELSE LET first == CHOOSE i \in missing : \A j \in missing : i <= j
             IN  [ok |-> FALSE,
                  products |-> ApplyUpdates(prods, SubSeq(ws, 1, first - 1))]

\* batch.commit(): update() requires the document to exist; if any write of
\* the batch fails none is applied.
BatchCommit(prods, ws) ==
    IF \E i \in 1..Len(ws) : ~prods[ws[i].ref].exists
    THEN [ok |-> FALSE, products |-> prods]
    ELSE [ok |-> TRUE, products |-> ApplyUpdates(prods, ws)]

\* Variant: the cart is left in place.
CartDeleteNothing(cs, userId) == cs

\* Lines 66-67: carts/{userId}.delete(); deleting an absent document succeeds.
CartDelete(cs, userId) == cs \ {userId}

Reply(r, res) == /\ response' = [response EXCEPT ![r] = res]
                 /\ pc' = [pc EXCEPT ![r] = "done"]

Error500(msg) == [status |-> 500, error |-> msg]

\* Lines 35-41: the request arrives, the intent is retrieved and checked.
VerifyPayment(r) ==
    /\ pc[r] = "start"
    /\ \E b \in Bodies :
         /\ body' = [body EXCEPT ![r] = b]
         /\ \/ \E st \in IntentStatuses :
                 LET pi == [id |-> b.paymentIntentId, status |-> st]
                 IN  /\ paymentIntent' = [paymentIntent EXCEPT ![r] = pi]
                     /\ IF PaymentCompleted(pi)
                        THEN /\ pc' = [pc EXCEPT ![r] = "add"]
                             /\ UNCHANGED response
                        ELSE Reply(r, [status |-> 400,
                                       error |-> "Payment not completed"])
            \/ \* retrieve rejects (unknown id, provider unreachable)
               /\ Reply(r, Error500("retrieve failed"))
               /\ UNCHANGED paymentIntent
    /\ UNCHANGED <<storeVars, payVars, orderRef, batchCommitted,
                   analyticsVars, indexVars>>

\* Lines 44-53: create the order.
AddOrder(r) ==
    /\ pc[r] = "add"
    /\ \/ /\ orders' = OrdersAdd(orders, body[r], clock + 1)
          /\ clock' = clock + 1
          /\ orderRef' = [orderRef EXCEPT ![r] = Len(orders')]
          /\ pc' = [pc EXCEPT ![r] = "commit"]
          /\ UNCHANGED response
       \/ /\ Reply(r, Error500("add failed"))
          /\ UNCHANGED <<orders, clock, orderRef>>
    /\ UNCHANGED <<products, carts, users, search_index, payVars, body,
                   paymentIntent, batchCommitted, analyticsVars, indexVars>>

\* Lines 56-63: build the batch and commit it.
CommitBatch(r) ==
    /\ pc[r] = "commit"
    /\ \/ LET result == BatchCommit(products, BatchUpdates(body[r].items))
          IN  /\ products' = result.products
              /\ IF result.ok
                 THEN /\ batchCommitted' = batchCommitted \cup {r}
                      /\ pc' = [pc EXCEPT ![r] = "delete"]
                      /\ UNCHANGED response
                 ELSE /\ Reply(r, Error500("no document to update"))
                      /\ UNCHANGED batchCommitted
       \/ \* the store is unreachable
          /\ Reply(r, Error500("commit failed"))
          /\ UNCHANGED <<products, batchCommitted>>
    /\ UNCHANGED <<orders, carts, users, search_index, clock, payVars, body,
                   paymentIntent, orderRef, analyticsVars, indexVars>>

\* Lines 66-67: clear the user's cart.
DeleteCart(r) ==
    /\ pc[r] = "delete"
    /\ \/ /\ carts' = CartDelete(carts, body[r].userId)
          /\ pc' = [pc EXCEPT ![r] = "respond"]
          /\ UNCHANGED response
       \/ /\ Reply(r, Error500("delete failed"))
          /\ UNCHANGED carts
    /\ UNCHANGED <<orders, products, users, search_index, clock, payVars, body,
                   paymentIntent, orderRef, batchCommitted, analyticsVars,
                   indexVars>>

\* Line 69.
Respond(r) ==
    /\ pc[r] = "respond"
    /\ Reply(r, [status |-> 200, orderId |-> orderRef[r], result |-> "success"])
    /\ UNCHANGED <<storeVars, payVars, body, paymentIntent, orderRef,
                   batchCommitted, analyticsVars, indexVars>>

InitUsers ==
    [u \in {"admin", "shopper", "norole", "ghost"} |->
        CASE u = "admin"   -> Doc([email |-> "a@x", role |-> Def("admin")])
          [] u = "shopper" -> Doc([email |-> "s@x", role |-> Def("customer")])
          [] u = "norole"  -> Doc([email |-> "n@x", role |-> Undef])
          [] OTHER         -> NoDoc]

InitOrders ==
    /\ orders = <<>>
    /\ products = InitProducts
    /\ carts \in SUBSET UserIds
    /\ users = InitUsers
    /\ search_index = [p \in ProductIds |-> NoDoc]
    /\ clock = 0
    /\ pc = [r \in Requests |-> "start"]
    /\ body = [r \in Requests |-> NoBody]
    /\ paymentIntent = [r \in Requests |-> NoIntent]
    /\ orderRef = [r \in Requests |-> 0]
    /\ response = [r \in Requests |-> NoResponse]
    /\ batchCommitted = {}
    /\ IdlePay /\ IdleAnalytics /\ IdleIndex

NextOrders ==
    \E r \in Requests :
        \/ VerifyPayment(r)
        \/ AddOrder(r)
        \/ CommitBatch(r)
        \/ DeleteCart(r)
        \/ Respond(r)

SpecOrders == InitOrders /\ [][NextOrders]_vars

InitPay ==
    /\ orders = <<>>
    /\ products = InitProducts
    /\ carts = {}
    /\ users = InitUsers
    /\ search_index = [p \in ProductIds |-> NoDoc]
    /\ clock = 0
    /\ pc = [r \in Requests |-> "start"]
    /\ body = [r \in Requests |-> NoBody]
    /\ paymentIntent = [r \in Requests |-> NoIntent]
    /\ orderRef = [r \in Requests |-> 0]
    /\ response = [r \in Requests |-> NoResponse]
    /\ batchCommitted = {}
    /\ IdlePay /\ IdleAnalytics /\ IdleIndex

NextPay == CreatePaymentIntent

SpecPay == InitPay /\ [][NextPay]_vars


(***************************************************************************)
(* Properties of process-order, checked under SpecOrders.                  *)
(***************************************************************************)
RECURSIVE QtyOf(_, _)
\* Total quantity the items ask of product p.
QtyOf(items, p) ==
    IF items = <<>> THEN 0
    ELSE (IF Head(items).productId = p THEN Head(items).quantity ELSE 0)
         + QtyOf(Tail(items), p)

RECURSIVE CommittedQty(_, _)
\* Total quantity of p over the invocations in rs.
CommittedQty(rs, p) ==
    IF rs = {} THEN 0
    ELSE LET r == CHOOSE x \in rs : TRUE
         IN  QtyOf(body[r].items, p) + CommittedQty(rs \ {r}, p)

Stepped(r) == pc'[r] # pc[r]
StockOf(prods, p) == prods[p].data.stock
OrdersWithId(os, id) == {i \in 1..Len(os) : os[i].id = id}
OrdersWithIntent(os, pid) == {i \in 1..Len(os) : os[i].paymentIntentId = pid}

\* C1: a request whose retrieved payment intent is not "succeeded" is
\* answered 400 in the step that retrieves it, that step writes no order,
\* no product and no cart, and the request never reaches a later write (it
\* has no order reference and no committed batch, and stays finished).
UnpaidRequestWritesNothing ==
    [][\A r \in Requests :
          (paymentIntent'[r] # NoIntent /\ paymentIntent'[r].status # "succeeded")
          => /\ pc'[r] = "done"
             /\ response'[r].status = 400
             /\ orderRef'[r] = 0
             /\ r \notin batchCommitted'
             /\ Stepped(r) => /\ orders' = orders
                              /\ products' = products
                              /\ carts' = carts]_vars

UnpaidRequestAnswered ==
    \E r \in Requests :
        /\ paymentIntent[r].status = "processing"
        /\ response[r].status = 400
        /\ \E q \in Requests : response[q].status = 200

\* C2: on the path to the 200 response the add step appends exactly one
\* order, status "confirmed", built from the body; no other step of the
\* request changes the orders; the commit step lowers every product's
\* stock by exactly the quantity the items ask of it; and when the 200 is
\* sent the order is in the collection once and the user's cart is gone.
SuccessfulOrderEffects ==
    [][\A r \in Requests :
          /\ (Stepped(r) /\ pc'[r] = "commit")
             => /\ orders' = Append(orders, orders'[Len(orders')])
                /\ orderRef'[r] = orders'[Len(orders')].id
                /\ orders'[Len(orders')].status = "confirmed"
                /\ orders'[Len(orders')].userId = body[r].userId
                /\ orders'[Len(orders')].items = body[r].items
                /\ orders'[Len(orders')].paymentIntentId = body[r].paymentIntentId
          /\ (Stepped(r) /\ pc'[r] # "commit") => orders' = orders
          /\ (Stepped(r) /\ pc'[r] = "delete")
             => \A p \in ProductIds :
                   IF products[p].exists
                   THEN /\ products'[p].exists
                        /\ StockOf(products', p)
                             = StockOf(products, p) - QtyOf(body[r].items, p)
                   ELSE products'[p] = products[p]
          /\ (Stepped(r) /\ response'[r].status = 200)
             => /\ pc[r] = "respond"
                /\ paymentIntent[r].status = "succeeded"
                /\ response'[r].orderId = orderRef[r]
                /\ Cardinality(OrdersWithId(orders', orderRef[r])) = 1
                /\ orders'[orderRef[r]].status = "confirmed"
                /\ r \in batchCommitted'
                /\ body[r].userId \notin carts']_vars

TwoItemOrderSucceeded ==
    \E r \in Requests :
        /\ response[r].status = 200
        /\ Len(body[r].items) = 2
        /\ batchCommitted = {r}
        /\ Len(orders) = 1
        /\ StockOf(products, "p1") = InitStock - 1
        /\ StockOf(products, "p2") = InitStock - 2
        /\ carts = {"u2"}

\* C4: two requests with the same body (hence the same paymentIntentId)
\* that both got 200 have two distinct order documents carrying that
\* paymentIntentId, and every product has lost at least twice the quantity
\* of the body (exactly twice when no other batch has committed).
ReplayCreatesSecondOrder ==
    \A r1, r2 \in Requests :
        (r1 # r2 /\ body[r1] = body[r2]
           /\ response[r1].status = 200 /\ response[r2].status = 200)
        => /\ orderRef[r1] # orderRef[r2]
           /\ {orderRef[r1], orderRef[r2]}
                \subseteq OrdersWithIntent(orders, body[r1].paymentIntentId)
           /\ \A p \in ProductIds :
                 products[p].exists
                 => /\ StockOf(products, p)
                         <= InitStock - 2 * QtyOf(body[r1].items, p)
                    /\ batchCommitted = {r1, r2}
                       => StockOf(products, p)
                            = InitStock - 2 * QtyOf(body[r1].items, p)

ReplayCompleted ==
    \E r1, r2 \in Requests :
        /\ r1 # r2 /\ body[r1] = body[r2]
        /\ response[r1].status = 200 /\ response[r2].status = 200
        /\ Len(body[r1].items) = 2
        /\ Cardinality(OrdersWithIntent(orders, body[r1].paymentIntentId)) = 2

\* C5: the commit step either applies the decrement of every item or
\* changes no product; when it fails the request ends with a 500 in that
\* step, its order is still in the collection with status "confirmed", and
\* the orders and carts are untouched; a finished request takes no further
\* step and an order once referenced is never removed or changed.
FailedBatchLeavesOrder ==
    [][\A r \in Requests :
          /\ (pc[r] = "commit" /\ Stepped(r))
             => \/ /\ pc'[r] = "delete"
                   /\ \A p \in ProductIds :
                         products[p].exists
                         => StockOf(products', p)
                              = StockOf(products, p) - QtyOf(body[r].items, p)
                \/ /\ pc'[r] = "done"
                   /\ response'[r].status = 500
                   /\ products' = products
                   /\ orders' = orders
                   /\ carts' = carts
                   /\ r \notin batchCommitted'
          /\ pc[r] = "done" => (pc'[r] = "done" /\ response'[r] = response[r])
          /\ orderRef[r] # 0
             => /\ orderRef'[r] = orderRef[r]
                /\ orders'[orderRef[r]] = orders[orderRef[r]]
                /\ orders'[orderRef[r]].status = "confirmed"]_vars

BatchFailedAfterOrder ==
    \E r \in Requests :
        /\ pc[r] = "done"
        /\ response[r] = Error500("no document to update")
        /\ orderRef[r] # 0
        /\ orders[orderRef[r]].status = "confirmed"
        /\ QtyOf(body[r].items, "p1") = 1
        /\ batchCommitted = {}
        /\ products = InitProducts

\* C6: nothing bounds the decrements by the stock: when two requests that
\* both reference product p have both been answered 200, p's stock is at
\* most the initial stock less both quantities, below zero included.
ConcurrentOrdersBothDecrement ==
    \A r1, r2 \in Requests : \A p \in ProductIds :
        (r1 # r2 /\ products[p].exists
           /\ response[r1].status = 200 /\ response[r2].status = 200
           /\ QtyOf(body[r1].items, p) > 0 /\ QtyOf(body[r2].items, p) > 0)
        => StockOf(products, p)
             <= InitStock - QtyOf(body[r1].items, p) - QtyOf(body[r2].items, p)

Oversold ==
    \E r1, r2 \in Requests : \E p \in ProductIds :
        /\ r1 # r2 /\ products[p].exists
        /\ response[r1].status = 200 /\ response[r2].status = 200
        /\ QtyOf(body[r1].items, p) + QtyOf(body[r2].items, p) > InitStock
        /\ StockOf(products, p) < 0

\* C10: after every step, each product's stock is the initial stock less
\* the quantities of the requests whose batch has committed, every such
\* request has its order document in the collection, and a step changes
\* the carts only if it is a step of a request whose batch has committed.
DecrementsMatchCommittedBatches ==
    [][/\ \A p \in ProductIds :
             IF products'[p].exists
             THEN StockOf(products', p)
                    = InitStock - CommittedQty(batchCommitted', p)
             ELSE products'[p] = NoDoc
       /\ \A r \in batchCommitted' :
             /\ orderRef'[r] \in 1..Len(orders')
             /\ orders'[orderRef'[r]].paymentIntentId = body'[r].paymentIntentId
             /\ orders'[orderRef'[r]].items = body'[r].items
       /\ carts' # carts
          => \E r \in batchCommitted : Stepped(r) /\ pc[r] = "delete"]_vars

InterleavedBatchesCommitted ==
    /\ batchCommitted = Requests
    /\ \E r \in Requests : pc[r] = "delete"
    /\ \E r \in Requests : Len(body[r].items) = 2
    /\ StockOf(products, "p1") < InitStock - 1


(***************************************************************************)
(* analytics (lines 76-107).                                               *)
(***************************************************************************)
\* Line 99: slice(0, 10).
RecentLimit == 10
\* Largest orders collection the analytics specification starts from.
MaxInitOrders == 11
\* Creation times of the orders the analytics specification starts from.
Stamps == {1, 2}

\* Authorization headers, already split on ' ' (Undef: no header).
AuthHeaders ==
    { Undef, Def(<<"tok-admin">>), Def(<<"Bearer", "garbage">>),
      Def(<<"Bearer", "tok-admin">>), Def(<<"Bearer", "tok-shopper">>),
      Def(<<"Bearer", "tok-norole">>), Def(<<"Bearer", "tok-ghost">>) }

\* Line 79: req.headers.authorization?.split(' ')[1].
BearerToken(header) ==
    IF header.def /\ Len(header.v) >= 2 THEN header.v[2] ELSE Undefined

\* admin.auth().verifyIdToken: the uid of a token the identity provider
\* issued; anything else is rejected.
VerifyIdToken(tok) ==
    CASE tok = "tok-admin"   -> [verified |-> TRUE, uid |-> "admin"]
      [] tok = "tok-shopper" -> [verified |-> TRUE, uid |-> "shopper"]
      [] tok = "tok-norole"  -> [verified |-> TRUE, uid |-> "norole"]
      [] tok = "tok-ghost"   -> [verified |-> TRUE, uid |-> "ghost"]
      [] OTHER               -> NoToken

\* Variant: a caller without a user document passes.
IsAdminOrUnknown(doc) == ~doc.exists \/ doc.data.role = Def("admin")

\* Line 83 (negated): userDoc.exists && userDoc.data().role === 'admin'.
IsAdmin(doc) == doc.exists /\ doc.data.role = Def("admin")

\* Variant: oldest first.
CompareAscending(a, b) == a.createdAt - b.createdAt

\* Line 98: the comparator (a, b) => b.createdAt - a.createdAt.
Compare(a, b) == b.createdAt - a.createdAt

\* Array.prototype.sort with that comparator; the sort is stable.
RECURSIVE InsertSorted(_, _)
InsertSorted(sorted, x) ==
    IF sorted = <<>> THEN <<x>>
    ELSE LET last == sorted[Len(sorted)]
             front == SubSeq(sorted, 1, Len(sorted) - 1)
         IN  IF Compare(last, x) <= 0 THEN Append(sorted, x)
             ELSE Append(InsertSorted(front, x), last)

RECURSIVE Sort(_)
Sort(docs) ==
    IF docs = <<>> THEN <<>>
    ELSE InsertSorted(Sort(SubSeq(docs, 1, Len(docs) - 1)), docs[Len(docs)])

\* Variant: one entry too many.
SliceInclusive(docs, from, to) ==
    SubSeq(docs, from + 1, IF to + 1 < Len(docs) THEN to + 1 ELSE Len(docs))

\* Array.prototype.slice(from, to) for 0 <= from <= to.
Slice(docs, from, to) ==
    SubSeq(docs, from + 1, IF to < Len(docs) THEN to ELSE Len(docs))

\* Line 96: reduce((sum, doc) => sum + (doc.data().total || 0), 0).
RECURSIVE TotalRevenue(_)
TotalRevenue(docs) ==
    IF docs = <<>> THEN 0 ELSE Head(docs).total + TotalRevenue(Tail(docs))

\* Lines 97-100.
RecentOrders(docs) == Slice(Sort(docs), 0, RecentLimit)

CollectionSize(coll) == Cardinality({k \in DOMAIN coll : coll[k].exists})

\* Lines 92-101.
Analytics(os, ps, us) ==
    [status |-> 200,
     totalOrders |-> Len(os.docs),
     totalProducts |-> ps.size,
     totalUsers |-> us.size,
     totalRevenue |-> TotalRevenue(os.docs),
     recentOrders |-> RecentOrders(os.docs)]

AReply(res) == aresponse' = res /\ apc' = "done"

Forbidden == [status |-> 403, error |-> "Unauthorized"]

\* Lines 79-80: read the bearer token and verify it.
AnalyticsVerify ==
    /\ apc = "start"
    /\ \E header \in AuthHeaders :
         LET tok == BearerToken(header)
             decoded == VerifyIdToken(tok)
         IN  /\ token' = tok
             /\ decodedToken' = decoded
             /\ IF decoded.verified
                THEN apc' = "user" /\ UNCHANGED aresponse
                ELSE AReply(Error500("token rejected"))
    /\ UNCHANGED <<storeVars, payVars, orderVars, userDoc, ordersSnapshot,
                   productsSnapshot, usersSnapshot, indexVars>>

\* Lines 81-85: load the caller's user document and check the role.
AnalyticsLoadUser ==
    /\ apc = "user"
    /\ \/ LET doc == users[decodedToken.uid]
          IN  /\ userDoc' = [read |-> TRUE, doc |-> doc]
              /\ IF IsAdmin(doc)
                 THEN apc' = "orders" /\ UNCHANGED aresponse
                 ELSE AReply(Forbidden)
       \/ /\ AReply(Error500("get failed"))
          /\ UNCHANGED userDoc
    /\ UNCHANGED <<storeVars, payVars, orderVars, token, decodedToken,
                   ordersSnapshot, productsSnapshot, usersSnapshot, indexVars>>

\* Line 88.
AnalyticsScanOrders ==
    /\ apc = "orders"
    /\ \/ /\ ordersSnapshot' = [read |-> TRUE, docs |-> orders]
          /\ apc' = "products"
          /\ UNCHANGED aresponse
       \/ /\ AReply(Error500("get failed"))
          /\ UNCHANGED ordersSnapshot
    /\ UNCHANGED <<storeVars, payVars, orderVars, token, decodedToken, userDoc,
                   productsSnapshot, usersSnapshot, indexVars>>

\* Line 89.
AnalyticsScanProducts ==
    /\ apc = "products"
    /\ \/ /\ productsSnapshot' = [read |-> TRUE, size |-> CollectionSize(products)]
          /\ apc' = "users"
          /\ UNCHANGED aresponse
       \/ /\ AReply(Error500("get failed"))
          /\ UNCHANGED productsSnapshot
    /\ UNCHANGED <<storeVars, payVars, orderVars, token, decodedToken, userDoc,
                   ordersSnapshot, usersSnapshot, indexVars>>

\* Lines 90-103: the last scan, then the aggregation and the response.
AnalyticsScanUsers ==
    /\ apc = "users"
    /\ \/ LET snap == [read |-> TRUE, size |-> CollectionSize(users)]
          IN  /\ usersSnapshot' = snap
              /\ AReply(Analytics(ordersSnapshot, productsSnapshot, snap))
       \/ /\ AReply(Error500("get failed"))
          /\ UNCHANGED usersSnapshot
    /\ UNCHANGED <<storeVars, payVars, orderVars, token, decodedToken, userDoc,
                   ordersSnapshot, productsSnapshot, indexVars>>

\* The orders collection holding one order per creation time in stamps, in
\* document order.
StoredOrders(stamps) ==
    [i \in 1..Len(stamps) |->
        NewOrder([userId |-> "u1", items |-> <<Item("p1", 1)>>, total |-> 10,
                  shippingAddress |-> "addr-1", paymentIntentId |-> "pi_1"],
                 i, stamps[i])]

InitAnalytics ==
    /\ \E n \in 0..MaxInitOrders :
         \E stamps \in [1..n -> Stamps] : orders = StoredOrders(stamps)
    /\ products = InitProducts
    /\ carts = {}
    /\ users = InitUsers
    /\ search_index = [p \in ProductIds |-> NoDoc]
    /\ clock = 2
    /\ pc = [r \in Requests |-> "start"]
    /\ body = [r \in Requests |-> NoBody]
    /\ paymentIntent = [r \in Requests |-> NoIntent]
    /\ orderRef = [r \in Requests |-> 0]
    /\ response = [r \in Requests |-> NoResponse]
    /\ batchCommitted = {}
    /\ IdlePay /\ IdleAnalytics /\ IdleIndex

NextAnalytics ==
    \/ AnalyticsVerify
    \/ AnalyticsLoadUser
    \/ AnalyticsScanOrders
    \/ AnalyticsScanProducts
    \/ AnalyticsScanUsers

SpecAnalytics == InitAnalytics /\ [][NextAnalytics]_vars

(***************************************************************************)
(* Properties of analytics, checked under SpecAnalytics.                   *)
(***************************************************************************)
\* C3: once the caller's user document has been loaded and it is absent or
\* its role is not "admin", the request is finished with a 403 and none of
\* the three collection snapshots has been taken; a 403 is sent in no other
\* case.
NonAdminGetsNoScan ==
    /\ (userDoc.read /\ (~userDoc.doc.exists
                          \/ userDoc.doc.data.role # Def("admin")))
       => /\ apc = "done"
          /\ aresponse = Forbidden
          /\ ~ordersSnapshot.read
          /\ ~productsSnapshot.read
          /\ ~usersSnapshot.read
    /\ aresponse.status = 403
       => (userDoc.read /\ ~(userDoc.doc.exists
                              /\ userDoc.doc.data.role = Def("admin")))

UnknownCallerForbidden ==
    /\ aresponse.status = 403
    /\ userDoc.read /\ ~userDoc.doc.exists
    /\ Len(orders) > 0

Ids(docs) == {docs[i].id : i \in 1..Len(docs)}

MaxWrites == 3

StrTagA == <<97>>
StrTagB == <<66>>

FullProduct == StockedProduct(InitStock).data

\* Product documents the writes of the model produce.
ProductDocs ==
    { FullProduct,
      [FullProduct EXCEPT !.tags = Def(<<StrTagA, StrTagB>>)],
      [FullProduct EXCEPT !.name = Def(<<>>), !.tags = Def(<<<<>>, StrTagB>>)],
      [FullProduct EXCEPT !.description = Undef, !.tags = Undef],
      [FullProduct EXCEPT !.images = Def(<<>>)],
      [FullProduct EXCEPT !.images = Undef, !.tags = Def(<<StrTagA, StrTagB>>)] }

\* String.prototype.toLowerCase on character codes.
ToLowerCase(str) ==
    [i \in 1..Len(str) |-> IF str[i] \in 65..90 THEN str[i] + 32 ELSE str[i]]

\* x?.toLowerCase()
OptLower(x) == IF x.def THEN Def(ToLowerCase(x.v)) ELSE Undef

\* Boolean(x) for a string or undefined: false for undefined and for ''.
Truthy(x) == x.def /\ x.v # <<>>

RECURSIVE FilterTruthy(_)
FilterTruthy(xs) ==
    IF xs = <<>> THEN <<>>
    ELSE (IF Truthy(Head(xs)) THEN <<Head(xs).v>> ELSE <<>>)
         \o FilterTruthy(Tail(xs))

\* Lines 138-143.
SearchTerms(product) ==
    LET tags == IF product.tags.def THEN product.tags.v ELSE <<>>
    IN  FilterTruthy(<<OptLower(product.name), OptLower(product.category),
                       OptLower(product.description)>>
                     \o [i \in 1..Len(tags) |-> Def(ToLowerCase(tags[i]))])

\* product.images?.[0]
FirstImage(product) ==
    IF product.images.def /\ Len(product.images.v) >= 1
    THEN Def(product.images.v[1]) ELSE Undef

\* Lines 146-154: the data passed to set(); updatedAt is filled in by the
\* store.
IndexEntry(productId, product) ==
    [productId |-> productId, name |-> product.name,
     category |-> product.category, price |-> product.price,
     image |-> FirstImage(product), searchTerms |-> SearchTerms(product)]

\* The document store validates the data of set(): a field whose value is
\* undefined makes the call throw and nothing is written (admin.firestore()
\* is used at line 9 with its default settings, without
\* ignoreUndefinedProperties).
ValidDocumentData(entry) ==
    entry.name.def /\ entry.category.def /\ entry.price.def /\ entry.image.def

StoredEntry(entry, now) == Doc(entry @@ [updatedAt |-> now])

\* A product document is created, changed or deleted; the store emits the
\* event of the write.  (Writes come from product management and from the
\* stock updates of process-order.)
ProductWrite ==
    /\ Len(writes) < MaxWrites
    /\ \E p \in {"p1", "p3"} :
         \E after \in {NoDoc} \cup {Doc(d) : d \in ProductDocs} :
            /\ after # products[p]
            /\ products' = [products EXCEPT ![p] = after]
            /\ writes' = Append(writes, [productId |-> p, after |-> after])
            /\ events' = events \cup {Len(writes) + 1}
    /\ UNCHANGED <<orders, carts, users, search_index, clock, payVars,
                   orderVars, analyticsVars, handled>>

\* One invocation of the trigger, for the event of write w.  The platform
\* hands over events of different writes in no particular order.
UpdateSearchIndex(w) ==
    /\ w \in events
    /\ LET productId == writes[w].productId
           after     == writes[w].after
       IN  IF ~after.exists
           THEN /\ search_index' = [search_index EXCEPT ![productId] = NoDoc]
                /\ UNCHANGED clock
           ELSE LET entry == IndexEntry(productId, after.data)
                IN  IF ValidDocumentData(entry)
                    THEN /\ search_index' =
                              [search_index EXCEPT
                                  ![productId] = StoredEntry(entry, clock + 1)]
                         /\ clock' = clock + 1
                    ELSE \* set() throws, the invocation fails
                         UNCHANGED <<search_index, clock>>
    /\ events' = events \ {w}
    /\ handled' = handled \cup {w}
    /\ UNCHANGED <<orders, products, carts, users, payVars, orderVars,
                   analyticsVars, writes>>

InitIndex ==
    /\ orders = <<>>
    /\ products = InitProducts
    /\ carts = {}
    /\ users = InitUsers
    /\ search_index =
          [p \in ProductIds |->
              IF products[p].exists
              THEN StoredEntry(IndexEntry(p, products[p].data), 0)
              ELSE NoDoc]
    /\ clock = 0
    /\ pc = [r \in Requests |-> "start"]
    /\ body = [r \in Requests |-> NoBody]
    /\ paymentIntent = [r \in Requests |-> NoIntent]
    /\ orderRef = [r \in Requests |-> 0]
    /\ response = [r \in Requests |-> NoResponse]
    /\ batchCommitted = {}
    /\ IdlePay /\ IdleAnalytics /\ IdleIndex

NextIndex ==
    \/ ProductWrite
    \/ \E w \in 1..MaxWrites : UpdateSearchIndex(w)

SpecIndex == InitIndex /\ [][NextIndex]_vars

(***************************************************************************)
(* Properties of the trigger, checked under SpecIndex.                     *)
(***************************************************************************)
IsLowerCase(str) == \A i \in 1..Len(str) : str[i] \notin 65..90
Elems(seq) == {seq[i] : i \in 1..Len(seq)}

\* The values the search terms are drawn from: name, category, description
\* and every tag, where present.
TermSources(product) ==
    {x.v : x \in {y \in {product.name, product.category, product.description}
                    : y.def}}
    \cup (IF product.tags.def THEN Elems(product.tags.v) ELSE {})

\* What the index holds for a product after its event, per the contract.
MirrorsProduct(entry, productId, product) ==
    /\ entry.exists
    /\ entry.data.productId = productId
    /\ entry.data.name = product.name
    /\ entry.data.category = product.category
    /\ entry.data.price = product.price
    /\ entry.data.image = FirstImage(product)
    /\ Elems(entry.data.searchTerms)
         = {ToLowerCase(v) : v \in {u \in TermSources(product) : u # <<>>}}
    /\ \A t \in Elems(entry.data.searchTerms) : t # <<>> /\ IsLowerCase(t)

LatestWrite(p) ==
    LET ws == {i \in 1..Len(writes) : writes[i].productId = p}
    IN  IF ws = {} THEN 0 ELSE CHOOSE i \in ws : \A j \in ws : j <= i

\* The index has a document for exactly the existing products among those
\* whose latest write has had its event handled.
IndexMatchesHandledProducts ==
    \A p \in ProductIds :
        (LatestWrite(p) # 0 /\ LatestWrite(p) \in handled)
        => (search_index[p].exists <=> products[p].exists)

\* C8: the invocation for a write that deleted the product removes the
\* product's index document; the invocation for any other write replaces
\* the index document by one mirroring the written product (name, category,
\* price, first image, lower-cased non-empty search terms); and once the
\* event of a product's latest write has been handled the index has a
\* document for the product exactly if the product exists.
IndexFollowsProductWrites ==
    [][/\ \A w \in events :
             w \notin events'
             => LET p     == writes[w].productId
                    after == writes[w].after
                IN  IF after.exists
                    THEN MirrorsProduct(search_index'[p], p, after.data)
                    ELSE search_index'[p] = NoDoc
       /\ IndexMatchesHandledProducts']_vars


(***************************************************************************)
(* Property of create-payment-intent, checked under SpecPay.               *)
(***************************************************************************)
\* round(amount * 100) for amount = milli / 1000, halves rounded up.
RoundedCents(milli) == (milli + 5) \div 10

\* C9: every intent the handler obtained from the provider carries the
\* amount round(amount * 100) of its request, so that 19.995 gives 2000.
IntentAmountIsRoundedCents ==
    \A i \in 1..Len(payLog) :
        payLog[i].res.status = 200
        => intents[payLog[i].intent].amount
             = RoundedCents(payLog[i].req.amountMilli)

====
